---- MODULE Spec2Model ----
(***************************************************************************)
(* Model of the stream supervisor of src/src/lib/streamer.ts: the module   *)
(* state, startStream / runStream / stopStream, the 'close' and 'error'    *)
(* handlers of the encoder subprocess and the restart timers they create.  *)
(* Every action is one run-to-completion handler of the Node event loop;   *)
(* runStream is split at its only await (track preparation).               *)
(***************************************************************************)
EXTENDS Integers, FiniteSets, Sequences, Bags, TLC

(* ---------------- program constants ---------------- *)
FAILURE_RESET_MS == 30000
MAX_CONSECUTIVE_FAILURES == 3
LOOP_DELAY_MS == 200
DEGRADE_DELAY_MS == 300
FAILURE_DELAY_MS == 500

(* ---------------- bounds of the model ---------------- *)
MaxSpawns == 3          \* encoder subprocesses spawned in one behaviour
MaxCalls == 2           \* runStream invocations suspended at the await
MaxApiCalls == 3        \* startStream and stopStream calls made by collaborators
StartTime == 100000     \* Date.now() when the module is loaded
MaxTicks == 2           \* observed advances of the clock in one behaviour
TickSteps == {500, 30001}
Urls == {"A"}
TrackCounts == {0, 1}       \* lengths of opts.tracks a collaborator submits
BackgroundCounts == {0, 1}  \* lengths of opts.backgrounds

Null == {}              \* lastOpts is {} for null and {opts} otherwise

(* StartOptions: the lists are represented by their lengths *)
Opts == [tracks : TrackCounts, backgrounds : BackgroundCounts, streamUrl : Urls]

(* (code, signal) of a 'close' event; code is null when a signal ended it *)
CleanExit == [codeIsNumber |-> TRUE, code |-> 0, signal |-> FALSE]
FailExit == [codeIsNumber |-> TRUE, code |-> 1, signal |-> FALSE]
SignalExit == [codeIsNumber |-> FALSE, code |-> 0, signal |-> TRUE]
ExitOutcomes == {CleanExit, FailExit, SignalExit}

VARIABLES
  state,            \* the module-level StreamState
  procs,            \* encoder subprocesses whose 'close' was not yet handled
  nextPid,          \* number of subprocesses spawned so far, plus one
  calls,            \* bag of runStream invocations suspended at the await
  timers,           \* bag of pending setTimeout restart closures
  filterCache,      \* filterCache entry of 'acrossfade': "none", "yes", "no"
  FORCE_ACROSSFADE, \* the environment switch, fixed at load
  now,              \* Date.now()
  ev,               \* the handler that ran last and what it did; also the
                    \* request accepted by the last startStream or stopStream
                    \* call, if no other startStream call was in progress
                    \* then (accepted), and whether an attempt failed since a
                    \* startStream call last made an attempt (degraded)
  sinceStop,        \* a stopStream call returned while no startStream call was
                    \* in progress, and no startStream call followed
  streak,           \* consecutive non-clean exits inside the reset window, with
                    \* no clean exit and no startStream or stopStream between
  streakAt,         \* time of the last exit counted in streak
  ticks,            \* advances of the clock so far
  apiCalls,         \* startStream and stopStream calls made so far
  calc              \* the call of a pure helper under study and its result

vars == <<state, procs, nextPid, calls, timers, filterCache, FORCE_ACROSSFADE,
          now, ev, sinceStop, streak, streakAt, ticks, apiCalls, calc>>

InitState == [process |-> 0, running |-> FALSE, lastOpts |-> Null,
              consecutiveFailures |-> 0, lastFailureAt |-> 0]

NoCalc == [fn |-> "none"]

NoEv == [op |-> "load", again |-> FALSE, ok |-> TRUE, origin |-> "none",
         spawned |-> 0, killed |-> 0, scheduled |-> 0,
         accepted |-> Null, degraded |-> FALSE]

Init ==
  /\ state = InitState
  /\ procs = {}
  /\ nextPid = 1
  /\ calls = EmptyBag
  /\ timers = EmptyBag
  /\ filterCache = "none"
  /\ FORCE_ACROSSFADE \in BOOLEAN
  /\ now = StartTime
  /\ ev = NoEv
  /\ sinceStop = FALSE
  /\ streak = 0
  /\ streakAt = 0
  /\ ticks = 0
  /\ apiCalls = 0
  /\ calc = NoCalc

(* ---------------- helpers ---------------- *)
Event(op, ok, origin, spawned, killed, scheduled) ==
  [op |-> op, again |-> (op = "stopStream" /\ ev.op = "stopStream"), ok |-> ok, origin |-> origin,
   spawned |-> spawned, killed |-> killed, scheduled |-> scheduled,
   accepted |-> ev.accepted, degraded |-> ev.degraded]

Alive(p) == p.spawnOk /\ ~p.killed

AliveProcs == {p \in procs : Alive(p)}

isStreaming == state.running

(* A failed spawn is reported on the tick after spawn(): the 'error' and    *)
(* the 'close' of that subprocess are emitted back to back, before any      *)
(* other event is handled.                                                  *)
SpawnFailurePending == \E p \in procs : ~p.spawnOk

(* a validation that forgets the backgrounds *)
ValidRequestTracksOnly(o) == o.tracks > 0

(* startStream: the two emptiness checks *)
ValidRequest(o) == o.tracks > 0 /\ o.backgrounds > 0

(* a stopStream that does nothing to the state *)
StopStateNoOp(st) == st

(* a stopStream that leaves the handle in state.process *)
StopStateKeepsHandle(st) ==
  [st EXCEPT !.running = FALSE,
             !.consecutiveFailures = 0,
             !.lastFailureAt = 0,
             !.lastOpts = IF st.running THEN Null ELSE @]

(* a stopStream that drops the stored request whether or not it was running *)
StopStateDropsRequest(st) ==
  [st EXCEPT !.running = FALSE,
             !.consecutiveFailures = 0,
             !.lastFailureAt = 0,
             !.process = 0,
             !.lastOpts = Null]

(* stopStream, the fields of state *)
StopState(st) ==
  [st EXCEPT !.running = FALSE,
             !.consecutiveFailures = 0,
             !.lastFailureAt = 0,
             !.process = 0,
             !.lastOpts = IF st.running THEN Null ELSE @]

(* a stopStream that forgets the handle without killing it *)
StopProcsNoKill(st, ps) == ps

(* stopStream, state.process.kill() *)
StopProcs(st, ps) ==
  {IF p.id = st.process THEN [p EXCEPT !.killed = TRUE] ELSE p : p \in ps}

(* the process stopStream sends a kill to, 0 when state.process is null *)
StopKilled(st) == st.process

(* ---------------- actions ---------------- *)
(* export stopStream, called by a collaborator *)
StopStream ==
  /\ ~SpawnFailurePending
  /\ apiCalls < MaxApiCalls
  /\ apiCalls' = apiCalls + 1
  /\ state' = StopState(state)
  /\ procs' = StopProcs(state, procs)
  /\ ev' = [Event("stopStream", TRUE, "api", 0, StopKilled(state), 0)
              EXCEPT !.accepted = Null]
  /\ sinceStop' = (\A c \in BagToSet(calls) : c.origin # "api")
  /\ streak' = 0
  /\ UNCHANGED <<nextPid, calls, timers, filterCache, FORCE_ACROSSFADE, now, streakAt, ticks, calc>>

(* export startStream up to the await inside runStream *)
StartStream(o) ==
  /\ ~SpawnFailurePending
  /\ apiCalls < MaxApiCalls
  /\ apiCalls' = apiCalls + 1
  /\ IF ValidRequest(o)
       THEN /\ BagCardinality(calls) < MaxCalls
            /\ state' = [state EXCEPT !.lastOpts = {o}]
            /\ calls' = calls (+) SetToBag({[opts |-> o, preferXfade |-> TRUE,
                                            attemptedFallback |-> FALSE,
                                            origin |-> "api"]})
            /\ ev' = [Event("startStream", TRUE, "api", 0, 0, 0)
                        EXCEPT !.accepted = IF \A c \in BagToSet(calls) : c.origin # "api"
                                              THEN {o} ELSE Null,
                               !.degraded = FALSE]
       ELSE /\ UNCHANGED <<state, calls>>
            /\ ev' = [Event("startStream", FALSE, "api", 0, 0, 0)
                        EXCEPT !.accepted = Null]
  /\ sinceStop' = FALSE
  /\ streak' = 0
  /\ UNCHANGED <<procs, nextPid, timers, filterCache, FORCE_ACROSSFADE, now, streakAt, ticks, calc>>

(* runStream from the await to its return: probing, capability, graph,     *)
(* stopStream(), spawn and the registration of the two handlers            *)
HasAcrossfade(found) ==
  IF FORCE_ACROSSFADE THEN TRUE
  ELSE IF filterCache = "none" THEN found ELSE filterCache = "yes"

HasFilterCache(found) ==
  IF FORCE_ACROSSFADE \/ filterCache # "none" THEN filterCache
  ELSE IF found THEN "yes" ELSE "no"

UseAcrossfade(c, found) ==
  IF c.preferXfade THEN HasAcrossfade(found)
  ELSE HasAcrossfade(found) /\ ~c.attemptedFallback

NewProc(c, found, spawnOk) ==
  [id |-> nextPid, opts |-> c.opts, preferXfade |-> c.preferXfade,
   attemptedFallback |-> c.attemptedFallback,
   useAcrossfade |-> UseAcrossfade(c, found),
   spawnOk |-> spawnOk, killed |-> FALSE, errorSeen |-> FALSE]

(* a runStream that goes on after a failed probe *)
ProbeNeverAborts(probeOk) == FALSE

(* the duration probe decides whether the attempt goes on *)
ProbeAborts(probeOk) == ~probeOk

RunStreamResume(c, probeOk, found, spawnOk) ==
  /\ ~SpawnFailurePending
  /\ BagIn(c, calls)
  /\ calls' = calls (-) SetToBag({c})
  /\ IF ProbeAborts(probeOk)
       THEN /\ ev' = Event("runStream", FALSE, c.origin, 0, 0, 0)
            /\ UNCHANGED <<state, procs, nextPid, filterCache>>
       ELSE /\ nextPid <= MaxSpawns
            /\ filterCache' = HasFilterCache(found)
            /\ state' = [StopState(state) EXCEPT !.process = nextPid, !.running = TRUE]
            /\ procs' = StopProcs(state, procs) \cup {NewProc(c, found, spawnOk)}
            /\ nextPid' = nextPid + 1
            /\ ev' = [Event("runStream", TRUE, c.origin, nextPid, StopKilled(state), 0)
                        EXCEPT !.degraded = IF c.origin = "api" THEN FALSE ELSE @]
  /\ streak' = IF c.origin = "api" THEN 0 ELSE streak
  /\ UNCHANGED <<timers, FORCE_ACROSSFADE, now, sinceStop, streakAt, ticks, apiCalls, calc>>

(* the 'close' handler registered on the subprocess p *)
NonClean(oc) == oc.signal \/ (oc.codeIsNumber /\ oc.code # 0)

CodeZero(oc) == oc.codeIsNumber /\ oc.code = 0

(* a failure count that is never incremented *)
FailureCountStuck(st, t) ==
  IF t - st.lastFailureAt > FAILURE_RESET_MS THEN 0 ELSE st.consecutiveFailures

FailureCount(st, t) ==
  (IF t - st.lastFailureAt > FAILURE_RESET_MS THEN 0 ELSE st.consecutiveFailures) + 1

CloseState(st, oc, t) ==
  LET s1 == [st EXCEPT !.running = FALSE, !.process = 0]
      s2 == IF CodeZero(oc)
              THEN [s1 EXCEPT !.consecutiveFailures = 0, !.lastFailureAt = 0]
              ELSE s1
  IN IF ~st.running THEN s2
     ELSE IF NonClean(oc)
       THEN LET n == FailureCount(s2, t)
                s3 == [s2 EXCEPT !.consecutiveFailures = n, !.lastFailureAt = t]
            IN IF n >= MAX_CONSECUTIVE_FAILURES
                 THEN [s3 EXCEPT !.lastOpts = Null]
                 ELSE s3
       ELSE s2

Timer(o, preferXfade, attemptedFallback, due) ==
  [opts |-> o, preferXfade |-> preferXfade,
   attemptedFallback |-> attemptedFallback, due |-> due]

(* a clean-exit restart that degrades the settings like a failure restart *)
LoopRestartDegraded(p, t) == Timer(p.opts, FALSE, TRUE, t + LOOP_DELAY_MS)

(* the restart the handler schedules after a clean exit *)
LoopRestart(p, t) ==
  Timer(p.opts, p.preferXfade, p.attemptedFallback, t + LOOP_DELAY_MS)

(* a failure restart that keeps the settings of the failed attempt *)
FailureRestartSameSettings(p, t) ==
  Timer(p.opts, p.preferXfade, p.attemptedFallback, t + FAILURE_DELAY_MS)

(* the restart the handler schedules after a non-clean exit *)
FailureRestart(p, t) ==
  Timer(p.opts, FALSE, TRUE,
        t + (IF p.useAcrossfade /\ ~p.attemptedFallback
               THEN DEGRADE_DELAY_MS ELSE FAILURE_DELAY_MS))

(* a handler that schedules the restart whether or not it was running *)
CloseTimersAlways(st, p, oc, t) ==
  IF NonClean(oc)
    THEN IF FailureCount(st, t) >= MAX_CONSECUTIVE_FAILURES
           THEN {} ELSE {FailureRestart(p, t)}
    ELSE {LoopRestart(p, t)}

CloseTimers(st, p, oc, t) ==
  IF ~st.running THEN {}
  ELSE IF NonClean(oc)
    THEN IF FailureCount(st, t) >= MAX_CONSECUTIVE_FAILURES
           THEN {} ELSE {FailureRestart(p, t)}
    ELSE {LoopRestart(p, t)}

ProcClose(p, oc) ==
  /\ p \in procs
  /\ IF p.spawnOk THEN ~SpawnFailurePending ELSE p.errorSeen /\ oc = FailExit
  /\ state' = CloseState(state, oc, now)
  /\ timers' = timers (+) SetToBag(CloseTimers(state, p, oc, now))
  /\ procs' = procs \ {p}
  /\ ev' = [Event("close", TRUE, IF p.spawnOk THEN "proc" ELSE "spawnfail", 0, 0,
                   Cardinality(CloseTimers(state, p, oc, now)))
              EXCEPT !.ok = state.running,
                     !.degraded = @ \/ (state.running /\ NonClean(oc) /\ ~p.killed)]
  /\ IF state.running /\ ~p.killed
       THEN IF NonClean(oc)
              THEN /\ streak' = IF streak > 0 /\ now - streakAt <= FAILURE_RESET_MS
                                  THEN streak + 1 ELSE 1
                   /\ streakAt' = now
              ELSE /\ streak' = 0
                   /\ UNCHANGED streakAt
       ELSE UNCHANGED <<streak, streakAt>>
  /\ UNCHANGED <<nextPid, calls, filterCache, FORCE_ACROSSFADE, now, sinceStop, ticks, apiCalls, calc>>

(* the 'error' handler registered on the subprocess p (spawn failure) *)
ProcError(p) ==
  /\ p \in procs
  /\ ~p.spawnOk /\ ~p.errorSeen
  /\ state' = StopState(state)
  /\ procs' = {IF q.id = p.id THEN [q EXCEPT !.errorSeen = TRUE] ELSE q :
                 q \in StopProcs(state, procs)}
  /\ ev' = Event("error", TRUE, "proc", 0, StopKilled(state), 0)
  /\ UNCHANGED <<nextPid, calls, timers, filterCache, FORCE_ACROSSFADE, now,
                 sinceStop, streak, streakAt, ticks, apiCalls, calc>>

(* a setTimeout callback: runStream(opts, ...) up to its await *)
TimerFire(t) ==
  /\ ~SpawnFailurePending
  /\ BagIn(t, timers)
  /\ now >= t.due
  /\ BagCardinality(calls) < MaxCalls
  /\ timers' = timers (-) SetToBag({t})
  /\ calls' = calls (+) SetToBag({[opts |-> t.opts, preferXfade |-> t.preferXfade,
                                   attemptedFallback |-> t.attemptedFallback,
                                   origin |-> "timer"]})
  /\ ev' = Event("timer", TRUE, "timer", 0, 0, 0)
  /\ UNCHANGED <<state, procs, nextPid, filterCache, FORCE_ACROSSFADE, now,
                 sinceStop, streak, streakAt, ticks, apiCalls, calc>>

(* time passes *)
Tick(d) ==
  /\ ~SpawnFailurePending
  /\ ticks < MaxTicks
  /\ ticks' = ticks + 1
  /\ now' = now + d
  /\ UNCHANGED <<state, procs, nextPid, calls, timers, filterCache,
                 FORCE_ACROSSFADE, ev, sinceStop, streak, streakAt, apiCalls, calc>>

Next ==
  \/ StopStream
  \/ \E o \in Opts : StartStream(o)
  \/ \E c \in BagToSet(calls), probeOk \in BOOLEAN, found \in BOOLEAN, spawnOk \in BOOLEAN :
        RunStreamResume(c, probeOk, found, spawnOk)
  \/ \E p \in procs, oc \in ExitOutcomes : ProcClose(p, oc)
  \/ \E p \in procs : ProcError(p)
  \/ \E t \in BagToSet(timers) : TimerFire(t)
  \/ \E d \in TickSteps : Tick(d)

Spec == Init /\ [][Next]_vars

(* ---------------- C1 ---------------- *)
(* C1: over any interleaving of startStream, stopStream, exit events and    *)
(* timer firings there are never two encoder subprocesses alive at once     *)
(* (spawned, not exited, not sent a kill).                                  *)
C1_AtMostOneAlive == Cardinality(AliveProcs) <= 1

(* ---------------- C2 ---------------- *)
(* C2: after the third non-clean exit in a row inside the reset window      *)
(* (no clean exit, stopStream or startStream in between) isStreaming() is   *)
(* false, no restart is scheduled and lastOpts is null.                     *)
C2_CircuitBreaker ==
  (ev.op = "close" /\ streak >= MAX_CONSECUTIVE_FAILURES) =>
    (~isStreaming /\ ev.scheduled = 0 /\ timers = EmptyBag /\ state.lastOpts = Null)

(* ---------------- C3 ---------------- *)
(* C3: after stopStream() returned no encoder subprocess is spawned until   *)
(* the next startStream call, even if a restart timer was pending when      *)
(* stopStream was called (no startStream call being in progress then).      *)
C3_NoSpawnAfterStop == sinceStop => ev.spawned = 0

(* ---------------- C4 ---------------- *)
(* C4: a zero-status, no-signal exit handled while Running schedules        *)
(* exactly one restart, with the request and the preferXfade and            *)
(* attemptedFallback flags of the exited attempt, and leaves                *)
(* consecutiveFailures at zero.                                             *)
C4_CleanExitRestart ==
  [][\A p \in procs :
       (state.running /\ ProcClose(p, CleanExit)) =>
         /\ timers' = timers (+) SetToBag({[opts |-> p.opts,
                                            preferXfade |-> p.preferXfade,
                                            attemptedFallback |-> p.attemptedFallback,
                                            due |-> now + 200]})
         /\ BagCardinality(timers') = BagCardinality(timers) + 1
         /\ state'.consecutiveFailures = 0]_vars

C4_Witness ==
  /\ ev.op = "close" /\ ev.ok /\ ev.scheduled = 1
  /\ state.consecutiveFailures = 0
  /\ \E t \in BagToSet(timers) : t.due = now + 200 /\ t.preferXfade /\ ~t.attemptedFallback

(* ---------------- C5 ---------------- *)
(* C5: after stopStream() returns, from any reachable state (Running,       *)
(* waiting for a restart timer, or Idle after a failed start; no            *)
(* startStream call in progress), running is false, the process handle is   *)
(* null, consecutiveFailures and lastFailureAt are 0 and lastOpts is null.  *)
C5_StopClearsAll ==
  (ev.op = "stopStream" /\ calls = EmptyBag) =>
    /\ ~state.running /\ state.process = 0
    /\ state.consecutiveFailures = 0 /\ state.lastFailureAt = 0
    /\ state.lastOpts = Null

(* ---------------- C6 ---------------- *)
(* C6: a stopStream() call that directly follows a stopStream() call leaves *)
(* the supervisor state as the first call left it and sends no kill.        *)
C6_StopIdempotent ==
  [][(ev.op = "stopStream" /\ StopStream) =>
       /\ state' = state /\ procs' = procs
       /\ timers' = timers /\ calls' = calls
       /\ ev'.killed = 0]_vars

C6_Witness ==
  /\ ev.op = "stopStream" /\ ev.again
  /\ \E p \in procs : p.killed

(* ---------------- C7 ---------------- *)
(* C7 as stated: stopStream() called while Idle (running false, no process  *)
(* handle) changes no field of the supervisor state and kills nothing.      *)
C7_IdleStopNoOp ==
  [][(~state.running /\ state.process = 0 /\ StopStream) =>
       /\ state' = state /\ procs' = procs
       /\ timers' = timers /\ calls' = calls]_vars

(* C7 amended: stopStream() called while Idle kills nothing and leaves      *)
(* running, the process handle, lastOpts, the timers and the suspended      *)
(* attempts as they were; it sets consecutiveFailures and lastFailureAt     *)
(* to 0.                                                                    *)
C7_IdleStopResetsCounters ==
  [][(~state.running /\ state.process = 0 /\ StopStream) =>
       /\ state' = [state EXCEPT !.consecutiveFailures = 0, !.lastFailureAt = 0]
       /\ procs' = procs /\ timers' = timers /\ calls' = calls
       /\ ev'.killed = 0]_vars

C7_Witness ==
  /\ ev.op = "stopStream" /\ ev.killed = 0 /\ ~ev.again
  /\ state.lastOpts # Null /\ timers # EmptyBag

C9_InvalidStartNoEffect ==
  [][\A o \in Opts :
       ((o.tracks = 0 \/ o.backgrounds = 0) /\ StartStream(o)) =>
         /\ UNCHANGED <<state, procs, nextPid, timers, calls, filterCache>>
         /\ ~ev'.ok]_vars

C9_Witness ==
  /\ ev.op = "startStream" /\ ~ev.ok
  /\ state.running
  /\ \E p \in procs : p.id = state.process /\ Alive(p)

(* ---------------- C10 ---------------- *)
(* C10: when duration probing fails the attempt returns ok=false, spawns    *)
(* no subprocess, kills none, schedules no restart and leaves the           *)
(* supervisor state as it was.                                              *)
C10_ProbeFailureAborts ==
  [][\A c \in BagToSet(calls), found \in BOOLEAN, spawnOk \in BOOLEAN :
       RunStreamResume(c, FALSE, found, spawnOk) =>
         /\ ~ev'.ok /\ ev'.spawned = 0
         /\ UNCHANGED <<state, procs, nextPid, timers>>]_vars

C10_Witness ==
  /\ ev.op = "runStream" /\ ~ev.ok /\ ev.spawned = 0
  /\ state.running

(* ======================================================================= *)
(* The graph plan of one attempt: runStream lines 312-344 with              *)
(* buildBackgroundGraph and buildAudioGraph.  Times are integers in units   *)
(* of 0.5 ms, so that minDur / 2 is exact for durations of whole            *)
(* milliseconds.  A label is a pair <<name, index>>; a fragment of the      *)
(* filter text is a record of its filter, input labels and output label.    *)
(* ======================================================================= *)
UnitsPerSecond == 2000
FPS == 30
AUDIO_SR == 44100
MIN_XFADE == 400            \* 0.2 s
MIN_BACKGROUND == 1000      \* 0.5 s

MaxItems == 2                               \* longest playlist considered
TrackDurations == {200, 600, 2000, 10000}   \* 0.1 s, 0.3 s, 1 s, 5 s
RawBackgroundDurations == {0, 600, 6000}    \* b.duration: missing, 0.3 s, 3 s
XfadeDefaults == {4000, 1000}               \* STREAM_XFADE_SEC: 2 (default), 0.5

SeqsUpTo(S, n) == UNION {[1..k -> S] : k \in 1..n}

Min2(a, b) == IF a <= b THEN a ELSE b
Max2(a, b) == IF a >= b THEN a ELSE b

RECURSIVE SumSeq(_)
SumSeq(q) == IF q = <<>> THEN 0 ELSE q[1] + SumSeq(Tail(q))

MinSeq(q) == CHOOSE m \in {q[k] : k \in 1..Len(q)} : \A k \in 1..Len(q) : m <= q[k]

CeilDiv(a, b) == -((-a) \div b)

(* runStream line 313 *)
BackgroundDurations(raw) == [k \in 1..Len(raw) |-> Max2(MIN_BACKGROUND, raw[k])]

(* a crossfade window that is not halved *)
EffectiveXfadeWholeTrack(durations, dflt) ==
  Min2(dflt, Max2(MIN_XFADE, MinSeq(durations)))

(* a crossfade window clamped from below only *)
EffectiveXfadeNoCap(durations, dflt) ==
  Max2(dflt, Max2(MIN_XFADE, MinSeq(durations) \div 2))

(* runStream lines 323-324 *)
EffectiveXfade(durations, dflt) ==
  Min2(dflt, Max2(MIN_XFADE, MinSeq(durations) \div 2))

Label(name, k) == <<name, k>>

(* a builder that concatenates a single item too *)
NeedsJoinAlways(count) == count >= 1

(* buildBackgroundGraph line 226, buildAudioGraph line 260 *)
NeedsJoin(count) == count > 1

buildBackgroundGraph(durations) ==
  LET count == Len(durations)
      prep == [k \in 1..count |->
                 [filter |-> "scale", ins |-> <<Label("v", k - 1)>>,
                  out |-> Label("bg", k - 1), arg |-> durations[k]]]
      totalDuration == SumSeq(durations)
      totalFrames == Max2(1, CeilDiv(totalDuration * FPS, UnitsPerSecond))
      cat == IF NeedsJoin(count)
               THEN <<[filter |-> "concat",
                       ins |-> [k \in 1..count |-> Label("bg", k - 1)],
                       out |-> Label("bgcat", 0), arg |-> count]>>
               ELSE <<>>
      vPrev == IF NeedsJoin(count) THEN Label("bgcat", 0) ELSE Label("bg", 0)
      loop == [filter |-> "loop", ins |-> <<vPrev>>,
               out |-> Label("vloop", 0), arg |-> totalFrames]
  IN [filter |-> prep \o cat \o <<loop>>,
      vLabel |-> Label("vloop", 0),
      totalDuration |-> totalDuration]

buildAudioGraph(inputOffset, durations, xfade, useAcrossfade) ==
  LET count == Len(durations)
      prep == [k \in 1..count |->
                 [filter |-> "atrim", ins |-> <<Label("a-in", inputOffset + k - 1)>>,
                  out |-> Label("a", k - 1), arg |-> durations[k]]]
      xfOut(k) == IF k = count - 1 THEN Label("amerge", 0) ELSE Label("axf", k)
      xfIn(k) == IF k = 1 THEN Label("a", 0) ELSE xfOut(k - 1)
      join == IF ~NeedsJoin(count) THEN <<>>
              ELSE IF useAcrossfade
                THEN [k \in 1..(count - 1) |->
                        [filter |-> "acrossfade", ins |-> <<xfIn(k), Label("a", k)>>,
                         out |-> xfOut(k), arg |-> xfade]]
                ELSE <<[filter |-> "concat",
                        ins |-> [k \in 1..count |-> Label("a", k - 1)],
                        out |-> Label("amerge", 0), arg |-> count]>>
      aPrev == IF NeedsJoin(count) THEN Label("amerge", 0) ELSE Label("a", 0)
      audioTotal == SumSeq(durations) - (IF useAcrossfade THEN xfade * (count - 1) ELSE 0)
      loopSize == Max2(1, (audioTotal * AUDIO_SR) \div UnitsPerSecond)
      loop == [filter |-> "aloop", ins |-> <<aPrev>>,
               out |-> Label("aloop", 0), arg |-> loopSize]
  IN [filter |-> prep \o join \o <<loop>>,
      aLabel |-> Label("aloop", 0),
      totalDuration |-> audioTotal]

(* a total that takes the shorter stream *)
TotalDurationMin(videoTotal, audioTotal) == Min2(videoTotal, audioTotal)

(* runStream line 340 *)
TotalDuration(videoTotal, audioTotal) == Max2(videoTotal, audioTotal)

(* runStream lines 312-340 for probed durations and a capability result *)
GraphPlan(rawBackgrounds, durations, dflt, useAcrossfade) ==
  LET xfade == EffectiveXfade(durations, dflt)
      bgGraph == buildBackgroundGraph(BackgroundDurations(rawBackgrounds))
      audioGraph == buildAudioGraph(Len(rawBackgrounds), durations, xfade, useAcrossfade)
  IN [xfade |-> xfade,
      filter |-> bgGraph.filter \o audioGraph.filter,
      vLabel |-> bgGraph.vLabel,
      aLabel |-> audioGraph.aLabel,
      totalDuration |-> TotalDuration(bgGraph.totalDuration, audioGraph.totalDuration)]

GraphInputs ==
  [fn : {"graph"}, backgrounds : SeqsUpTo(RawBackgroundDurations, MaxItems),
   durations : SeqsUpTo(TrackDurations, MaxItems), dflt : XfadeDefaults,
   useAcrossfade : BOOLEAN, built : {FALSE}, plan : {<<>>}]

GraphInit ==
  /\ state = InitState /\ procs = {} /\ nextPid = 1
  /\ calls = EmptyBag /\ timers = EmptyBag
  /\ filterCache = "none" /\ FORCE_ACROSSFADE = FALSE
  /\ now = StartTime /\ ev = NoEv /\ sinceStop = FALSE
  /\ streak = 0 /\ streakAt = 0 /\ ticks = 0 /\ apiCalls = 0
  /\ calc \in GraphInputs

svars == <<state, procs, nextPid, calls, timers, filterCache, FORCE_ACROSSFADE,
           now, ev, sinceStop, streak, streakAt, ticks, apiCalls>>

(* one attempt builds its plan *)
BuildPlan ==
  /\ calc.fn = "graph" /\ ~calc.built
  /\ calc' = [calc EXCEPT !.built = TRUE,
                          !.plan = GraphPlan(calc.backgrounds, calc.durations,
                                             calc.dflt, calc.useAcrossfade)]
  /\ UNCHANGED svars

GraphNext == BuildPlan

GraphSpec == GraphInit /\ [][GraphNext]_vars

Built == calc.fn = "graph" /\ calc.built

Fragments(kind) ==
  {k \in 1..Len(calc.plan.filter) : calc.plan.filter[k].filter = kind}

C13_SpawnErrorStops ==
  [][\A p \in procs :
       /\ ProcError(p) =>
            /\ ~state'.running /\ state'.process = 0
            /\ timers' = timers /\ calls' = calls
       /\ (~p.spawnOk /\ ProcClose(p, FailExit)) =>
            /\ ~state'.running /\ state'.process = 0
            /\ timers' = timers /\ calls' = calls]_vars

C13_Witness ==
  /\ ev.op = "close" /\ ev.origin = "spawnfail" /\ ev.scheduled = 0
  /\ ~state.running /\ state.process = 0

(* ---------------- C14 ---------------- *)
VideoTotal ==
  SumSeq([k \in 1..Len(calc.backgrounds) |->
            IF calc.backgrounds[k] < 1000 THEN 1000 ELSE calc.backgrounds[k]])

AudioTotal ==
  SumSeq(calc.durations)
    - (IF calc.useAcrossfade THEN calc.plan.xfade * (Len(calc.durations) - 1) ELSE 0)

(* C14 as stated: the total program duration of an attempt is the minimum   *)
(* of the background (video) total and the audio total.                     *)
C14_TotalIsMin ==
  Built => /\ calc.plan.totalDuration <= VideoTotal
           /\ calc.plan.totalDuration <= AudioTotal
           /\ calc.plan.totalDuration \in {VideoTotal, AudioTotal}

(* C14 amended: the total program duration of an attempt is the maximum of  *)
(* the background (video) total and the audio total.                        *)
C14_TotalIsMax ==
  Built => /\ calc.plan.totalDuration >= VideoTotal
           /\ calc.plan.totalDuration >= AudioTotal
           /\ calc.plan.totalDuration \in {VideoTotal, AudioTotal}

C14_Witness ==
  /\ Built /\ VideoTotal < AudioTotal
  /\ calc.plan.totalDuration = AudioTotal

(* ---------------- C15 ---------------- *)
ShortestTrack ==
  CHOOSE m \in {calc.durations[k] : k \in 1..Len(calc.durations)} :
    \A k \in 1..Len(calc.durations) : m <= calc.durations[k]

(* C15: the effective crossfade window is min(default, max(0.2 s, shortest  *)
(* probed duration / 2)); for durations [0.3, 5.0] and default 2 s it is    *)
(* 0.2 s.                                                                   *)
C15_XfadeClamp ==
  Built =>
    LET x == calc.plan.xfade
        m == ShortestTrack
    IN /\ x <= calc.dflt
       /\ x <= 400 \/ 2 * x <= m
       /\ x = calc.dflt \/ (x >= 400 /\ 2 * x >= m)
       /\ (calc.durations = <<600, 10000>> /\ calc.dflt = 4000) => x = 400

C15_Witness ==
  /\ Built /\ calc.durations = <<600, 10000>> /\ calc.dflt = 4000
  /\ calc.plan.xfade = 400

(* ---------------- C16 ---------------- *)
(* C16 as stated: the effective crossfade window never exceeds half the     *)
(* duration of the shortest track.                                          *)
C16_XfadeAtMostHalf == Built => 2 * calc.plan.xfade <= ShortestTrack

(* C16 amended: the effective crossfade window never exceeds the larger of  *)
(* 0.2 s and half the duration of the shortest track.                       *)
C16_XfadeAtMostHalfOrFloor ==
  Built => (calc.plan.xfade <= 400 \/ 2 * calc.plan.xfade <= ShortestTrack)

C16_Witness ==
  /\ Built /\ ShortestTrack = 2000 /\ calc.dflt = 4000
  /\ calc.plan.xfade = 1000

(* ---------------- C17 ---------------- *)
SingleItem == Len(calc.backgrounds) = 1 /\ Len(calc.durations) = 1

(* C17 as stated: for one track and one background the builder emits no     *)
(* concat and no acrossfade fragment and the returned labels are those of   *)
(* the prepared item 0 of each stream.                                      *)
C17_SingleItemAliases ==
  (Built /\ SingleItem) =>
    /\ Fragments("concat") = {} /\ Fragments("acrossfade") = {}
    /\ calc.plan.vLabel = <<"bg", 0>> /\ calc.plan.aLabel = <<"a", 0>>

(* C17 amended: for one track and one background the builder emits no       *)
(* concat and no acrossfade fragment; the loop fragment of each stream      *)
(* takes the prepared item 0 as its input, and the returned labels are the  *)
(* outputs of the two loop fragments.                                       *)
C17_SingleItemLoopsItemZero ==
  (Built /\ SingleItem) =>
    /\ Fragments("concat") = {} /\ Fragments("acrossfade") = {}
    /\ \E k \in Fragments("loop") :
         /\ calc.plan.filter[k].ins = << <<"bg", 0>> >>
         /\ calc.plan.filter[k].out = calc.plan.vLabel
    /\ \E k \in Fragments("aloop") :
         /\ calc.plan.filter[k].ins = << <<"a", 0>> >>
         /\ calc.plan.filter[k].out = calc.plan.aLabel
    /\ Len(calc.plan.filter) = 4

C17_Witness ==
  /\ Built /\ SingleItem /\ calc.useAcrossfade
  /\ calc.plan.vLabel = <<"vloop", 0>> /\ calc.plan.aLabel = <<"aloop", 0>>

(* ======================================================================== *)
(* Track sanitizer (sanitizeTrack and its byte scanners).  A source file is *)
(* a byte sequence assembled from a leading tag, junk before the first      *)
(* frame, a body and a trailing tag; the scanners work on the bytes.        *)
(* ======================================================================== *)
MIN_TRACK_BYTES == 1024
ID3V1_LENGTH == 128
APE_WINDOW == 256

MaxSanitizeCalls == 3          \* sanitizeTrack calls of one run
MaxPending == 2                \* calls suspended at readFile at once
MaxModifies == 1               \* external rewrites of the source file

Rep(b, n) == [k \in 1..n |-> b]

RECURSIVE BitOr(_, _)
BitOr(a, b) ==
  IF a = 0 THEN b
  ELSE IF b = 0 THEN a
  ELSE (IF a % 2 = 1 \/ b % 2 = 1 THEN 1 ELSE 0) + 2 * BitOr(a \div 2, b \div 2)

RECURSIVE BitAnd(_, _)
BitAnd(a, b) ==
  IF a = 0 \/ b = 0 THEN 0
  ELSE (IF a % 2 = 1 /\ b % 2 = 1 THEN 1 ELSE 0) + 2 * BitAnd(a \div 2, b \div 2)

\* a byte shifted by at most 21 bits stays below 2^29: no 32-bit wrap
ShiftLeft(a, n) == a * 2^n

TagKinds == {"none", "empty", "syncsafe", "overlap", "withsync"}
GapLengths == {0, 3}
BodyKinds == {"short", "exact", "long", "nosync"}
TailKinds == {"none", "id3v1", "ape", "apefar", "ape+id3v1"}

\* the files considered: every leading tag with every body, the trailing
\* tags on files with no tag or a plain one
Shapes ==
  {s \in [tag : TagKinds, gap : GapLengths, body : BodyKinds, tail : TailKinds] :
     /\ s.body = "nosync" => s.gap = 0
     /\ s.tail \in {"apefar", "ape+id3v1"} => (s.tag = "none" /\ s.gap = 0)
     /\ s.tag \in {"empty", "overlap", "withsync"} => s.tail = "none"}

ModifiedShapes ==
  { [tag |-> "syncsafe", gap |-> 0, body |-> "long",  tail |-> "none"],
    [tag |-> "syncsafe", gap |-> 0, body |-> "short", tail |-> "none"],
    [tag |-> "none",     gap |-> 0, body |-> "long",  tail |-> "none"],
    [tag |-> "none",     gap |-> 3, body |-> "long",  tail |-> "id3v1"] }

Id3Header(s6, s7, s8, s9) == <<73, 68, 51, 3, 0, 0, s6, s7, s8, s9>>

TagBytes(kind) ==
  CASE kind = "none"     -> <<>>
    [] kind = "empty"    -> Id3Header(0, 0, 0, 0)
    [] kind = "syncsafe" -> Id3Header(0, 0, 1, 72) \o Rep(0, 200)
    [] kind = "overlap"  -> Id3Header(0, 0, 1, 128) \o Rep(0, 128)
    [] kind = "withsync" -> Id3Header(0, 0, 1, 72) \o Rep(0, 50) \o <<255, 224>> \o Rep(0, 148)

BodyBytes(kind) ==
  CASE kind = "short"  -> <<255, 251>> \o Rep(85, 998)
    [] kind = "exact"  -> <<255, 251>> \o Rep(85, 1022)
    [] kind = "long"   -> <<255, 251>> \o Rep(85, 1098)
    [] kind = "nosync" -> Rep(85, 1100)

APETAGEX == <<65, 80, 69, 84, 65, 71, 69, 88>>

TailBytes(kind) ==
  CASE kind = "none"      -> <<>>
    [] kind = "id3v1"     -> <<84, 65, 71>> \o Rep(0, 125)
    [] kind = "ape"       -> APETAGEX \o Rep(0, 24)
    [] kind = "apefar"    -> APETAGEX \o Rep(0, 300)
    [] kind = "ape+id3v1" -> APETAGEX \o Rep(0, 24) \o <<84, 65, 71>> \o Rep(0, 125)

Bytes(shape) ==
  TagBytes(shape.tag) \o Rep(0, shape.gap) \o BodyBytes(shape.body) \o TailBytes(shape.tail)

buildCacheKey(mtime, size) == <<mtime, size>>

id3v2Size(buf) ==
  IF Len(buf) < 10 THEN 0
  ELSE IF buf[1] # 73 \/ buf[2] # 68 \/ buf[3] # 51 THEN 0
  ELSE 10 + BitOr(BitOr(ShiftLeft(buf[7], 21), ShiftLeft(buf[8], 14)),
                  BitOr(ShiftLeft(buf[9], 7), buf[10]))

hasId3v1Tag(buf) ==
  IF Len(buf) < ID3V1_LENGTH THEN FALSE
  ELSE LET start == Len(buf) - ID3V1_LENGTH
       IN buf[start + 1] = 84 /\ buf[start + 2] = 65 /\ buf[start + 3] = 71

firstMp3FrameOffset(buf) ==
  LET hits == {i \in 0..(Len(buf) - 2) :
                 buf[i + 1] = 255 /\ BitAnd(buf[i + 2], 224) = 224}
  IN IF hits = {} THEN 0
     ELSE CHOOSE i \in hits : \A j \in hits : i <= j

apeTailOffset(buf) ==
  LET hits == {i \in 0..(Len(buf) - Len(APETAGEX)) :
                 \A j \in 1..Len(APETAGEX) : buf[i + j] = APETAGEX[j]}
      idx == IF hits = {} THEN -1 ELSE CHOOSE i \in hits : \A j \in hits : i >= j
  IN IF idx # -1 /\ idx >= Len(buf) - APE_WINDOW THEN idx ELSE Len(buf)

\* mutant of StripFrom: only the leading tag is skipped
StripFromTagOnly(data) == id3v2Size(data)

\* line 90
StripFrom(data) == Max2(id3v2Size(data), firstMp3FrameOffset(data))

\* line 91
StripTo(data) ==
  Min2(IF hasId3v1Tag(data) THEN Len(data) - ID3V1_LENGTH ELSE Len(data),
       apeTailOffset(data))

\* line 93: neither boundary moves
Untouched(data, from, to) == from = 0 /\ to = Len(data)

\* mutant of TooSmall: any non-empty span is written
TooSmallOnlyEmpty(from, to) == to <= from

\* line 96
TooSmall(from, to) == to <= from \/ to - from < MIN_TRACK_BYTES

TrackPath == <<"track", 0>>
TmpPath(n) == <<"tmp", n>>

NoReturn ==
  [n |-> 0, kind |-> "none", path |-> TrackPath, from |-> 0, to |-> 0,
   key |-> <<0, 0>>, stale |-> {}]

SanitizerInputs ==
  [fn : {"sanitize"}, file : Shapes, mtime : {1}, cache : {{}}, temps : {{}},
   nextTmp : {1}, pending : {<<>>}, ret : {NoReturn}, nCalls : {0}, nMods : {0}]

SanitizerInit ==
  /\ state = InitState /\ procs = {} /\ nextPid = 1
  /\ calls = EmptyBag /\ timers = EmptyBag
  /\ filterCache = "none" /\ FORCE_ACROSSFADE = FALSE
  /\ now = StartTime /\ ev = NoEv /\ sinceStop = FALSE
  /\ streak = 0 /\ streakAt = 0 /\ ticks = 0 /\ apiCalls = 0
  /\ calc \in SanitizerInputs

Sanitizing == calc.fn = "sanitize"

Stat == buildCacheKey(calc.mtime, Len(Bytes(calc.file)))

TempExists(path) == \E t \in calc.temps : t.path = path

\* mutant of CacheHit: the fingerprint is not compared
CacheHitAnyKey(cacheKey) ==
  \E c \in calc.cache : TempExists(c.tmpPath)

\* line 85
CacheHit(cacheKey) ==
  \E c \in calc.cache : c.cacheKey = cacheKey /\ TempExists(c.tmpPath)

Return(kind, path, from, to, key) ==
  [n |-> calc.ret.n + 1, kind |-> kind, path |-> path, from |-> from, to |-> to,
   key |-> key, stale |-> calc.cache]

RemoveAt(q, k) == [i \in 1..(Len(q) - 1) |-> IF i < k THEN q[i] ELSE q[i + 1]]

\* sanitizeTrack up to its readFile: stat, fingerprint, cache lookup
SanitizeTrackBegin(ioOk) ==
  /\ Sanitizing
  /\ calc.nCalls < MaxSanitizeCalls
  /\ Len(calc.pending) < MaxPending
  /\ LET cacheKey == Stat
         base == [calc EXCEPT !.nCalls = @ + 1]
     IN calc' =
          IF ~ioOk
            THEN [base EXCEPT !.ret = Return("error", TrackPath, 0, 0, cacheKey)]
          ELSE IF CacheHit(cacheKey)
            THEN LET c == CHOOSE c \in calc.cache : TRUE
                 IN [base EXCEPT !.ret = Return("hit", c.tmpPath, 0, 0, cacheKey)]
          ELSE [base EXCEPT !.pending = Append(@, cacheKey)]
  /\ UNCHANGED svars

\* sanitizeTrack from its readFile to its return, for the k-th suspended call
SanitizeTrackResume(k, ioOk) ==
  /\ Sanitizing
  /\ k \in 1..Len(calc.pending)
  /\ LET cacheKey == calc.pending[k]
         data == Bytes(calc.file)
         stripFrom == StripFrom(data)
         stripTo == StripTo(data)
         tmpPath == TmpPath(calc.nextTmp)
         base == [calc EXCEPT !.pending = RemoveAt(@, k)]
     IN calc' =
          IF ~ioOk
            THEN [base EXCEPT !.ret = Return("error", TrackPath, 0, 0, cacheKey)]
          ELSE IF Untouched(data, stripFrom, stripTo) \/ TooSmall(stripFrom, stripTo)
            THEN [base EXCEPT !.ret = Return("kept", TrackPath, stripFrom, stripTo, cacheKey)]
          ELSE [base EXCEPT
                  !.temps = @ \cup {[path |-> tmpPath, from |-> stripFrom,
                                     to |-> stripTo, src |-> calc.file]},
                  !.cache = {[tmpPath |-> tmpPath, cacheKey |-> cacheKey]},
                  !.nextTmp = @ + 1,
                  !.ret = Return("tmp", tmpPath, stripFrom, stripTo, cacheKey)]
  /\ UNCHANGED svars

\* another program rewrites the source file
ModifySource(shape, touch) ==
  /\ Sanitizing
  /\ calc.nMods < MaxModifies
  /\ shape # calc.file
  /\ calc' = [calc EXCEPT !.file = shape, !.mtime = @ + touch, !.nMods = @ + 1]
  /\ UNCHANGED svars

\* the temp directory is cleaned
DeleteTemp(n) ==
  /\ Sanitizing
  /\ TempExists(TmpPath(n))
  /\ calc' = [calc EXCEPT !.temps = {t \in @ : t.path # TmpPath(n)}]
  /\ UNCHANGED svars

SanitizerNext ==
  \/ \E ioOk \in BOOLEAN : SanitizeTrackBegin(ioOk)
  \/ \E k \in 1..MaxPending, ioOk \in BOOLEAN : SanitizeTrackResume(k, ioOk)
  \/ \E shape \in ModifiedShapes, touch \in {0, 1} : ModifySource(shape, touch)
  \/ \E n \in 1..MaxSanitizeCalls : DeleteTemp(n)

SanitizerSpec == SanitizerInit /\ [][SanitizerNext]_vars

\* a step in which a sanitizeTrack call returns from its stat / cache lookup
BeginReturns ==
  /\ Sanitizing /\ calc'.ret.n # calc.ret.n
  /\ Len(calc'.pending) = Len(calc.pending)

\* a step in which a sanitizeTrack call returns after reading the file
ResumeReturns ==
  /\ Sanitizing /\ calc'.ret.n # calc.ret.n
  /\ Len(calc'.pending) < Len(calc.pending)

NoTrailingTag(data) == ~hasId3v1Tag(data) /\ apeTailOffset(data) = Len(data)

(* ---------------- C18 ---------------- *)
(* C18 as stated: for a buffer that starts with an ID3v2-style tag of       *)
(* decoded size S, has no trailing tag and leaves at least 1024 bytes after *)
(* stripping, the sanitizer's output content begins exactly at 10+S.        *)
C18_BeginsAfterTag ==
  [][(ResumeReturns /\ calc'.ret.kind # "error") =>
       LET data == Bytes(calc.file)
       IN (/\ id3v2Size(data) > 0
           /\ NoTrailingTag(data)
           /\ Len(data) - id3v2Size(data) >= 1024)
          => (calc'.ret.kind = "tmp" /\ calc'.ret.from = id3v2Size(data))]_vars

(* C18 amended: for such a buffer the sanitizer strips from the larger of   *)
(* 10+S and F, the offset of the first MPEG sync byte pair found scanning   *)
(* the whole buffer (0 if none); when at least 1024 bytes remain its output *)
(* begins exactly there and runs to the end of the buffer, which is 10+S    *)
(* whenever F <= 10+S; otherwise the original path is returned.             *)
C18_BeginsAtTagOrFirstSync ==
  [][(ResumeReturns /\ calc'.ret.kind # "error") =>
       LET data == Bytes(calc.file)
           tagEnd == id3v2Size(data)
           F == firstMp3FrameOffset(data)
           start == IF F > tagEnd THEN F ELSE tagEnd
       IN (tagEnd > 0 /\ NoTrailingTag(data)) =>
            IF Len(data) - start >= 1024
              THEN /\ calc'.ret.kind = "tmp"
                   /\ calc'.ret.from = start /\ calc'.ret.to = Len(data)
                   /\ \E t \in calc'.temps :
                        /\ t.path = calc'.ret.path /\ t.src = calc.file
                        /\ t.from = start /\ t.to = Len(data)
                   /\ F <= tagEnd => calc'.ret.from = tagEnd
              ELSE /\ calc'.ret.path = TrackPath
                   /\ calc'.temps = calc.temps]_vars

C18_Witness ==
  /\ Sanitizing /\ calc.ret.kind = "tmp"
  /\ \E t \in calc.temps :
       /\ t.path = calc.ret.path
       /\ t.src = [tag |-> "syncsafe", gap |-> 3, body |-> "long", tail |-> "none"]
       /\ t.from = 213 /\ t.to = 1313

(* ---------------- C19 ---------------- *)
(* C19: the sanitizer returns the original path, writes no temp file and    *)
(* records no cache entry whenever neither strip boundary moves or the      *)
(* remaining span would be empty or shorter than 1024 bytes; every temp     *)
(* file it writes is a contiguous slice of the source of at least 1024      *)
(* bytes.                                                                   *)
C19_KeepsUnviable ==
  [][ResumeReturns =>
       LET data == Bytes(calc.file)
           from == StripFrom(data)
           to == StripTo(data)
       IN /\ ((from = 0 /\ to = Len(data)) \/ to <= from \/ to - from < 1024)
               => /\ calc'.ret.path = TrackPath
                  /\ calc'.temps = calc.temps
                  /\ calc'.cache = calc.cache
          /\ \A t \in calc'.temps \ calc.temps :
               /\ t.src = calc.file
               /\ 0 <= t.from /\ t.to <= Len(data)
               /\ t.to - t.from >= 1024]_vars

C19_Witness ==
  /\ Sanitizing /\ calc.ret.kind = "kept"
  /\ calc.ret.from > 0 /\ calc.ret.to > calc.ret.from
  /\ calc.ret.to - calc.ret.from < 1024
  /\ calc.temps = {} /\ calc.cache = {}

(* ---------------- C20 ---------------- *)
CachedPathValid ==
  \E c \in calc.cache : c.cacheKey = Stat /\ TempExists(c.tmpPath)

SizeChangedSinceCached(key) ==
  calc.cache # {} /\ \A c \in calc.cache : c.cacheKey[2] # key[2]

(* C20 as stated: a call on a source whose fingerprint is unchanged and     *)
(* whose cached temp file still exists returns the cached temp path; after  *)
(* the source's size is modified externally, the next call returns a fresh  *)
(* temp path different from the cached one.                                 *)
C20_CacheReuseAndRefresh ==
  [][/\ (BeginReturns /\ calc'.ret.kind # "error" /\ CachedPathValid)
          => \E c \in calc.cache : calc'.ret.path = c.tmpPath
     /\ (ResumeReturns /\ calc'.ret.kind # "error"
           /\ SizeChangedSinceCached(calc'.ret.key))
          => /\ calc'.ret.kind = "tmp"
             /\ \A c \in calc.cache : calc'.ret.path # c.tmpPath
             /\ ~TempExists(calc'.ret.path)]_vars

(* C20 amended: a call on a source whose fingerprint equals the cached one  *)
(* and whose cached temp file still exists returns the cached temp path,    *)
(* and the cached path is returned in no other case; after the source's     *)
(* size is modified externally, the next call returns a fresh temp path     *)
(* different from the cached one if the modified content has something to   *)
(* strip and keeps at least 1024 bytes, and otherwise returns the original  *)
(* path and leaves the cache entry as it was.                               *)
C20_CacheReuseAndRefreshIfViable ==
  [][/\ (BeginReturns /\ calc'.ret.kind # "error")
          => /\ CachedPathValid
             /\ \E c \in calc.cache : calc'.ret.path = c.tmpPath
     /\ (BeginReturns /\ calc'.ret.kind = "error") => calc'.ret.path = TrackPath
     /\ (ResumeReturns /\ calc'.ret.kind # "error"
           /\ SizeChangedSinceCached(calc'.ret.key))
          => LET data == Bytes(calc.file)
                 from == StripFrom(data)
                 to == StripTo(data)
             IN IF (from # 0 \/ to # Len(data)) /\ to - from >= 1024
                  THEN /\ calc'.ret.kind = "tmp"
                       /\ \A c \in calc.cache : calc'.ret.path # c.tmpPath
                       /\ ~TempExists(calc'.ret.path)
                       /\ calc'.cache = {[tmpPath |-> calc'.ret.path,
                                          cacheKey |-> calc'.ret.key]}
                  ELSE /\ calc'.ret.path = TrackPath
                       /\ calc'.cache = calc.cache]_vars

C20_Witness ==
  /\ Sanitizing /\ calc.nMods = 1
  /\ calc.ret.kind = "hit" /\ calc.ret.path = TmpPath(2)
  /\ \E t1, t2 \in calc.temps :
       /\ t1.path = TmpPath(1) /\ t2.path = TmpPath(2)
       /\ t2.src = calc.file
       /\ Len(Bytes(t1.src)) # Len(Bytes(t2.src))

(* ======================================================================== *)
(* Further claims about the supervisor (specification Spec).                *)
(* ======================================================================== *)
(* ---------------- C23 ---------------- *)
(* C23: the exit event of a subprocess the supervisor itself killed is      *)
(* never counted as a failure, never schedules a restart and never clears   *)
(* the running flag or process handle of a newer subprocess.                *)
C23_KilledExitIgnored ==
  [][\A p \in procs, oc \in ExitOutcomes :
       (p.killed /\ ProcClose(p, oc)) =>
         /\ state'.consecutiveFailures <= state.consecutiveFailures
         /\ state'.lastFailureAt \in {state.lastFailureAt, 0}
         /\ timers' = timers
         /\ state.process # p.id =>
              (state'.running = state.running /\ state'.process = state.process)]_vars

(* ---------------- C24 ---------------- *)
(* C24: whenever an encoder subprocess is alive and has not been sent a     *)
(* kill, isStreaming() is true and state.process is its handle.             *)
C24_NoOrphanedEncoder ==
  \A p \in AliveProcs : isStreaming /\ state.process = p.id

(* ---------------- C26 ---------------- *)
(* C26: consecutiveFailures goes down only in the handling of an exit, in   *)
(* stopStream or in an attempt made by startStream; an attempt made by a    *)
(* restart timer leaves consecutiveFailures and lastFailureAt unchanged.    *)
C26_RestartKeepsCounters ==
  [][/\ state'.consecutiveFailures < state.consecutiveFailures =>
          \/ ev'.op \in {"close", "stopStream", "error"}
          \/ ev'.op = "runStream" /\ ev'.origin = "api"
     /\ \A c \in BagToSet(calls), probeOk \in BOOLEAN, found \in BOOLEAN,
           spawnOk \in BOOLEAN :
          (c.origin = "timer" /\ RunStreamResume(c, probeOk, found, spawnOk)) =>
            /\ state'.consecutiveFailures = state.consecutiveFailures
            /\ state'.lastFailureAt = state.lastFailureAt]_vars

(* ---------------- C27 ---------------- *)
(* C27: between handler executions state.running is true if and only if     *)
(* state.process is non-null.                                               *)
C27_RunningIffProcess == state.running <=> state.process # 0

C27_Witness ==
  /\ ev.op = "close" /\ ev.ok
  /\ ~state.running /\ state.process = 0
  /\ AliveProcs # {}

(* ---------------- C28 ---------------- *)
(* C28: at most one restart timer is pending at any time.                   *)
C28_AtMostOneTimer == BagCardinality(timers) <= 1

(* ---------------- C30 ---------------- *)
(* C30: a subprocess exit, clean or not, handled while the supervisor is    *)
(* not Running schedules no restart, does not increment                     *)
(* consecutiveFailures and does not change lastOpts.                        *)
C30_ExitWhileNotRunning ==
  [][\A p \in procs, oc \in ExitOutcomes :
       (~state.running /\ ProcClose(p, oc)) =>
         /\ timers' = timers
         /\ state'.consecutiveFailures <= state.consecutiveFailures
         /\ state'.lastOpts = state.lastOpts
         /\ ev'.scheduled = 0]_vars

C30_Witness ==
  /\ ev.op = "close" /\ ~ev.ok /\ ev.scheduled = 0
  /\ state.lastOpts # Null /\ timers # EmptyBag

(* ======================================================================== *)
(* Capability detection (hasFilter and the module-level filterCache).  The  *)
(* encoder's filter listing is the set of filter names it prints; the       *)
(* encoder can be replaced or break while the process runs.                 *)
(* ======================================================================== *)
MaxQueries == 4                \* hasFilter calls of one run
MaxEncoderChanges == 1         \* replacements of the encoder binary

FilterNames == {"acrossfade", "xfade"}

Encoders == [filters : SUBSET FilterNames, broken : BOOLEAN]

NoAnswer == [name |-> "none", result |-> FALSE, invoked |-> FALSE, failed |-> FALSE]

FilterInputs ==
  [fn : {"filter"}, cache : {[n \in FilterNames |-> "none"]}, encoder : Encoders,
   invocations : {[n \in FilterNames |-> 0]}, ret : {NoAnswer},
   nQueries : {0}, nChanges : {0}]

FilterInit ==
  /\ state = InitState /\ procs = {} /\ nextPid = 1
  /\ calls = EmptyBag /\ timers = EmptyBag
  /\ filterCache = "none" /\ FORCE_ACROSSFADE = FALSE
  /\ now = StartTime /\ ev = NoEv /\ sinceStop = FALSE
  /\ streak = 0 /\ streakAt = 0 /\ ticks = 0 /\ apiCalls = 0
  /\ calc \in FilterInputs

\* mutant of Memo: the cache is never consulted
MemoForgets(cache, name) == "none"

\* line 173: filterCache.has(name) / filterCache.get(name)
Memo(cache, name) == cache[name]

\* lines 176-178: the listing is searched for the name; a listing that could
\* not be produced is empty
Found(encoder, name) == ~encoder.broken /\ name \in encoder.filters

hasFilter(name, throws) ==
  /\ calc.fn = "filter"
  /\ calc.nQueries < MaxQueries
  /\ LET base == [calc EXCEPT !.nQueries = @ + 1]
         found == IF throws THEN FALSE ELSE Found(calc.encoder, name)
     IN calc' =
          IF Memo(calc.cache, name) # "none"
            THEN [base EXCEPT !.ret = [name |-> name,
                                       result |-> (Memo(calc.cache, name) = "yes"),
                                       invoked |-> FALSE, failed |-> FALSE]]
          ELSE [base EXCEPT
                  !.cache[name] = IF found THEN "yes" ELSE "no",
                  !.invocations[name] = @ + 1,
                  !.ret = [name |-> name, result |-> found, invoked |-> TRUE,
                           failed |-> (throws \/ calc.encoder.broken)]]
  /\ UNCHANGED svars

\* the encoder binary is replaced underneath the running process
EncoderChanges(e) ==
  /\ calc.fn = "filter"
  /\ calc.nChanges < MaxEncoderChanges
  /\ e # calc.encoder
  /\ calc' = [calc EXCEPT !.encoder = e, !.nChanges = @ + 1]
  /\ UNCHANGED svars

FilterNext ==
  \/ \E name \in FilterNames, throws \in BOOLEAN : hasFilter(name, throws)
  \/ \E e \in Encoders : EncoderChanges(e)

FilterSpec == FilterInit /\ [][FilterNext]_vars

(* ---------------- C22 ---------------- *)
(* C22: for each filter name the listing is invoked at most once; every     *)
(* later hasFilter(name) returns the first result without invoking the      *)
(* encoder; a failed invocation yields false, cached like any other result; *)
(* no cached result is ever changed.                                        *)
C22_Memoized ==
  [][calc.fn = "filter" =>
       /\ \A n \in FilterNames :
            /\ calc'.invocations[n] <= 1
            /\ calc.cache[n] # "none" => calc'.cache[n] = calc.cache[n]
       /\ calc'.nQueries # calc.nQueries =>
            LET n == calc'.ret.name
            IN /\ \A m \in FilterNames \ {n} : calc'.cache[m] = calc.cache[m]
               /\ calc'.cache[n] = (IF calc'.ret.result THEN "yes" ELSE "no")
               /\ IF calc.cache[n] # "none"
                    THEN /\ ~calc'.ret.invoked
                         /\ calc'.invocations = calc.invocations
                         /\ calc'.ret.result = (calc.cache[n] = "yes")
                    ELSE /\ calc'.ret.invoked
                         /\ calc'.invocations[n] = 1
                         /\ calc'.ret.failed => ~calc'.ret.result]_vars

C22_Witness ==
  /\ calc.fn = "filter" /\ calc.nChanges = 1
  /\ calc.ret.name = "acrossfade" /\ ~calc.ret.invoked /\ ~calc.ret.result
  /\ calc.cache["acrossfade"] = "no" /\ calc.invocations["acrossfade"] = 1
  /\ Found(calc.encoder, "acrossfade")

(* ======================================================================== *)
(* Track preparation (prepareTrack: sanitizeTrack, then remuxTrack).  The   *)
(* sanitizer is taken by its outcome; the remuxer by the outcome of its     *)
(* stat and of the synchronous encoder run.                                 *)
(* ======================================================================== *)
MaxPrepares == 3               \* prepareTrack calls of one run
MaxPreparing == 2              \* calls between the sanitizer and the remuxer

\* how sanitizeTrack ended: nothing to strip, a temp file written, the
\* cached temp file, a file-system error
SanitizeOutcomes == {"kept", "tmp", "hit", "error"}

\* how the encoder run of remuxTrack ended: status 0, a non-zero status, a
\* spawn error (res.error), death by a signal (status null, no error), an
\* exception
RemuxOutcomes == {"status0", "nonzero", "error", "signal", "throws"}

Fingerprints == {1, 2}

SanitizedPath == <<"tmp", 0>>
WavPath(n) == <<"wav", n>>

NoPrepared ==
  [n |-> 0, settled |-> "none", path |-> TrackPath, sanitized |-> FALSE,
   remuxed |-> FALSE, run |-> "none"]

PrepareInputs ==
  [fn : {"prepare"}, REMUX_TRACKS : BOOLEAN, remuxTrackCache : {{}}, files : {{}},
   nextWav : {1}, pending : {<<>>}, ret : {NoPrepared}, nPrepares : {0}]

PrepareInit ==
  /\ state = InitState /\ procs = {} /\ nextPid = 1
  /\ calls = EmptyBag /\ timers = EmptyBag
  /\ filterCache = "none" /\ FORCE_ACROSSFADE = FALSE
  /\ now = StartTime /\ ev = NoEv /\ sinceStop = FALSE
  /\ streak = 0 /\ streakAt = 0 /\ ticks = 0 /\ apiCalls = 0
  /\ calc \in PrepareInputs

Preparing == calc.fn = "prepare"

\* sanitizeTrack lines 86, 94, 97, 103, 106: what it resolves with
SanitizeResult(outcome) ==
  IF outcome \in {"tmp", "hit"} THEN SanitizedPath ELSE TrackPath

\* prepareTrack up to the end of its sanitizeTrack call
PrepareSanitize(outcome) ==
  /\ Preparing
  /\ calc.nPrepares < MaxPrepares
  /\ Len(calc.pending) < MaxPreparing
  /\ calc' = [calc EXCEPT
                !.nPrepares = @ + 1,
                !.pending = Append(@, SanitizeResult(outcome)),
                !.files = @ \cup (IF outcome \in {"tmp", "hit"}
                                    THEN {[path |-> SanitizedPath, complete |-> TRUE]}
                                    ELSE {})]
  /\ UNCHANGED svars

\* line 144: res.error || (typeof res.status === 'number' && res.status !== 0)
RemuxFailed(run) == run \in {"error", "nonzero"}

RemuxCached(trackPath, cacheKey) ==
  {c \in calc.remuxTrackCache :
     /\ c.src = trackPath /\ c.cacheKey = cacheKey
     /\ \E f \in calc.files : f.path = c.tmpPath}

Prepared(sanitizedPath, remuxedPath, run) ==
  [n |-> calc.ret.n + 1, settled |-> "resolved", path |-> remuxedPath,
   sanitized |-> (sanitizedPath # TrackPath),
   remuxed |-> (remuxedPath # sanitizedPath), run |-> run]

\* prepareTrack from its remuxTrack call to its return, for the k-th call
PrepareRemux(k, statOk, cacheKey, run, complete) ==
  /\ Preparing
  /\ k \in 1..Len(calc.pending)
  /\ LET trackPath == calc.pending[k]
         tmpPath == WavPath(calc.nextWav)
         base == [calc EXCEPT !.pending = RemoveAt(@, k)]
         hit == RemuxCached(trackPath, cacheKey)
     IN calc' =
          IF ~calc.REMUX_TRACKS
            THEN [base EXCEPT !.ret = Prepared(trackPath, trackPath, "off")]
          ELSE IF ~statOk
            THEN [base EXCEPT !.ret = Prepared(trackPath, trackPath, "stat")]
          ELSE IF hit # {}
            THEN [base EXCEPT
                    !.ret = Prepared(trackPath, (CHOOSE c \in hit : TRUE).tmpPath, "hit")]
          ELSE IF run = "throws"
            THEN [base EXCEPT !.ret = Prepared(trackPath, trackPath, run)]
          ELSE IF RemuxFailed(run)
            THEN [base EXCEPT
                    !.files = @ \cup (IF run = "nonzero"
                                        THEN {[path |-> tmpPath, complete |-> FALSE]}
                                        ELSE {}),
                    !.nextWav = @ + 1,
                    !.ret = Prepared(trackPath, trackPath, run)]
          ELSE [base EXCEPT
                  !.files = @ \cup {[path |-> tmpPath,
                                     complete |-> (run = "status0" \/ complete)]},
                  !.remuxTrackCache =
                     {c \in @ : c.src # trackPath}
                       \cup {[src |-> trackPath, tmpPath |-> tmpPath,
                              cacheKey |-> cacheKey]},
                  !.nextWav = @ + 1,
                  !.ret = Prepared(trackPath, tmpPath, run)]
  /\ UNCHANGED svars

PrepareNext ==
  \/ \E outcome \in SanitizeOutcomes : PrepareSanitize(outcome)
  \/ \E k \in 1..MaxPreparing, statOk \in BOOLEAN, cacheKey \in Fingerprints,
        run \in RemuxOutcomes, complete \in BOOLEAN :
          PrepareRemux(k, statOk, cacheKey, run, complete)

PrepareSpec == PrepareInit /\ [][PrepareNext]_vars

(* ---------------- C21 ---------------- *)
(* C21: prepareTrack never rejects; a failure in the sanitizer yields the   *)
(* original path; a non-zero exit status or a process error in the remuxer  *)
(* yields the sanitized path; the path prepareTrack resolves with is        *)
(* always usable.                                                           *)
C21_PrepareNeverFails ==
  [][(Preparing /\ calc'.ret.n # calc.ret.n) =>
       /\ calc'.ret.settled = "resolved"
       /\ \E k \in 1..Len(calc.pending) :
            /\ calc'.pending = RemoveAt(calc.pending, k)
            /\ calc'.ret.run \in {"nonzero", "error", "throws", "stat", "off"}
                 => calc'.ret.path = calc.pending[k]
       /\ LET path == calc'.ret.path   \* usable: the caller's track, or a temp
                                       \* file that was written to its end
          IN path = TrackPath \/ \E f \in calc'.files : f.path = path /\ f.complete]_vars

(* ---------------- C29 ---------------- *)
(* C29: once an attempt of the request has exited non-cleanly (handled      *)
(* while Running, the subprocess not killed by the supervisor), every       *)
(* attempt later spawned by a restart timer runs with audio crossfade       *)
(* disabled, until a startStream call is accepted or spawns its attempt.    *)
C29_DegradationPermanent ==
  (ev.op = "runStream" /\ ev.spawned # 0 /\ ev.origin = "timer" /\ ev.degraded) =>
    \A p \in procs : p.id = ev.spawned => ~p.useAcrossfade

(* ======================================================================== *)
(* The supervisor with two valid requests, A and B (the actions of Spec).   *)
(* ======================================================================== *)
Requests ==
  {[tracks |-> 1, backgrounds |-> 1, streamUrl |-> u] : u \in {"A", "B"}}

RequestNext ==
  \/ StopStream
  \/ \E o \in Requests : StartStream(o)
  \/ \E c \in BagToSet(calls), probeOk \in BOOLEAN, found \in BOOLEAN, spawnOk \in BOOLEAN :
        RunStreamResume(c, probeOk, found, spawnOk)
  \/ \E p \in procs, oc \in ExitOutcomes : ProcClose(p, oc)
  \/ \E p \in procs : ProcError(p)
  \/ \E t \in BagToSet(timers) : TimerFire(t)
  \/ \E d \in TickSteps : Tick(d)

RequestSpec == Init /\ [][RequestNext]_vars

(* ---------------- C25 ---------------- *)
(* C25: after a startStream call was accepted (no other startStream call    *)
(* being in progress), every encoder subprocess that a restart timer        *)
(* spawns before the next startStream or stopStream call streams the        *)
(* accepted request.                                                        *)
C25_LatestRequestWins ==
  (ev.op = "runStream" /\ ev.spawned # 0 /\ ev.origin = "timer" /\ ev.accepted # Null) =>
    \A p \in procs : p.id = ev.spawned => ev.accepted = {p.opts}
(* ======================================================================== *)
(* Further claims about the graph plan and the track preparation.           *)
(* ======================================================================== *)

(* ---------------- C31 ---------------- *)
(* C31: for a non-empty list of positive track durations and the clamped    *)
(* crossfade window, the audio total that sizes the audio loop (the sum of  *)
(* the durations, minus the window times (count - 1) when crossfade is      *)
(* used) is strictly positive.                                              *)
C31_AudioTotalPositive ==
  (/\ Built
   /\ calc.durations # <<>>
   /\ \A k \in 1..Len(calc.durations) : calc.durations[k] > 0
   /\ calc.plan.xfade = EffectiveXfade(calc.durations, calc.dflt)) =>
     buildAudioGraph(Len(calc.backgrounds), calc.durations, calc.plan.xfade,
                     calc.useAcrossfade).totalDuration > 0

(* ---------------- C32 ---------------- *)
(* C32: remuxTrack returns and caches a new temp path only when the encoder *)
(* run ended with exit status zero and no process error; after a non-zero   *)
(* status, a termination by signal with no status, or a spawn error, it     *)
(* returns its input path and records no cache entry.                       *)
C32_RemuxOnlyOnSuccess ==
  [][(Preparing /\ calc.REMUX_TRACKS /\ calc'.ret.n # calc.ret.n) =>
       \E k \in 1..Len(calc.pending) :
         /\ calc'.pending = RemoveAt(calc.pending, k)
         /\ LET trackPath == calc.pending[k]
                run == calc'.ret.run
                newPath == calc'.ret.path = WavPath(calc.nextWav)
            IN /\ newPath => run = "status0"
               /\ calc'.remuxTrackCache # calc.remuxTrackCache => run = "status0"
               /\ run \in {"nonzero", "signal", "error"} =>
                    /\ calc'.ret.path = trackPath
                    /\ calc'.remuxTrackCache = calc.remuxTrackCache]_vars
====
